---------------------------- MODULE Spec2Model ----------------------------
(***************************************************************************)
(* External merge sort of a flat file of 8-byte doubles                    *)
(* (sorter/external_merge_sort.py, class ExternalMergeSorter).             *)
(*                                                                         *)
(* One ExternalMergeSorter object and one call of sort(output_file) on it  *)
(* (every caller in the repository builds a fresh sorter per call).  The   *)
(* state is the object's fields, the locals of the running methods, the    *)
(* input file, the work directory and the destination file.                *)
(***************************************************************************)
EXTENDS Integers, Sequences, FiniteSets, TLC

(***************************************************************************)
(* Bounds of the model.                                                    *)
(***************************************************************************)
MaxLen == 4
MaxBlock == 3
MaxK == 3
MaxGroups == 7
MaxPasses == 5
SchedRuns == 9

(***************************************************************************)
(* Records: IEEE-754 doubles as struct.unpack("d") yields them.  "-0.0"    *)
(* and "0.0" are different byte patterns that compare equal; "nan"         *)
(* compares unequal and unordered with everything, itself included.        *)
(***************************************************************************)
NaN == "nan"

Key ==
  [d \in {"-0.0", "0.0", "1.0", "2.0", "3.0", "4.0", "5.0", "9.0"} |->
     CASE d = "-0.0" -> 0 [] d = "0.0" -> 0 [] d = "1.0" -> 1
       [] d = "2.0" -> 2 [] d = "3.0" -> 3 [] d = "4.0" -> 4
       [] d = "5.0" -> 5 [] d = "9.0" -> 9]

\* float.__lt__
FloatLT(a, b) == a # NaN /\ b # NaN /\ Key[a] < Key[b]

\* float.__le__
FloatLE(a, b) == a # NaN /\ b # NaN /\ Key[a] <= Key[b]

\* float.__eq__
FloatEQ(a, b) == a # NaN /\ b # NaN /\ Key[a] = Key[b]

\* tuple.__lt__ on the heap entries (value, source index): the first
\* position where the two differ (by ==) decides, by <.
TupleLT(s, t) ==
  IF FloatEQ(s[1], t[1]) THEN s[2] < t[2] ELSE FloatLT(s[1], t[1])

Min(a, b) == IF a < b THEN a ELSE b
Max(a, b) == IF a > b THEN a ELSE b

\* Optional arguments: None is the empty tuple, a value v is <<v>>.
None == << >>
Some(v) == <<v>>

(***************************************************************************)
(* list.sort() of a block ("nums.sort()").  CPython sorts a list shorter   *)
(* than 64 by finding the leading run (count_run), reversing it when it    *)
(* descends strictly, and inserting the rest by binary insertion           *)
(* (binarysort); every decision is one "<" of two floats.  On NaN-free     *)
(* input this is the stable ascending sort.                                *)
(***************************************************************************)
RECURSIVE AscRun(_, _)
AscRun(a, n) ==
  IF n < Len(a) /\ ~FloatLT(a[n + 1], a[n]) THEN AscRun(a, n + 1) ELSE n

RECURSIVE DescRun(_, _)
DescRun(a, n) ==
  IF n < Len(a) /\ FloatLT(a[n + 1], a[n]) THEN DescRun(a, n + 1) ELSE n

Reverse(a) == [j \in 1..Len(a) |-> a[Len(a) + 1 - j]]

\* binarysort's search: the slot in a[l+1..r] (0-based l, r) for pivot.
RECURSIVE BinarySlot(_, _, _, _)
BinarySlot(a, pivot, l, r) ==
  IF l < r
    THEN LET p == l + ((r - l) \div 2)
         IN IF FloatLT(pivot, a[p + 1])
              THEN BinarySlot(a, pivot, l, p)
              ELSE BinarySlot(a, pivot, p + 1, r)
    ELSE l

RECURSIVE BinarySort(_, _)
BinarySort(a, start) ==
  IF start > Len(a) THEN a
  ELSE LET pivot == a[start]
           l == BinarySlot(a, pivot, 0, start - 1)
           b == SubSeq(a, 1, l) \o <<pivot>> \o SubSeq(a, l + 1, start - 1)
                  \o SubSeq(a, start + 1, Len(a))
       IN BinarySort(b, start + 1)

ListSort(a) ==
  IF Len(a) < 2 THEN a
  ELSE IF FloatLT(a[2], a[1])
    THEN LET n == DescRun(a, 2)
         IN BinarySort(Reverse(SubSeq(a, 1, n)) \o SubSeq(a, n + 1, Len(a)), n + 1)
    ELSE BinarySort(a, AscRun(a, 2) + 1)

(***************************************************************************)
(* heapq on a list of (value, source index) entries; positions are the     *)
(* 0-based positions of heapq, stored at index position + 1.               *)
(***************************************************************************)
RECURSIVE SiftDownFrom(_, _, _, _)
SiftDownFrom(heap, newitem, startpos, pos) ==
  IF pos > startpos /\ TupleLT(newitem, heap[((pos - 1) \div 2) + 1])
    THEN SiftDownFrom([heap EXCEPT ![pos + 1] = heap[((pos - 1) \div 2) + 1]],
                      newitem, startpos, (pos - 1) \div 2)
    ELSE [heap EXCEPT ![pos + 1] = newitem]

\* heapq._siftdown(heap, startpos, pos)
SiftDown(heap, startpos, pos) == SiftDownFrom(heap, heap[pos + 1], startpos, pos)

RECURSIVE SiftUpFrom(_, _, _, _)
SiftUpFrom(heap, newitem, startpos, pos) ==
  LET endpos == Len(heap)
      left == 2 * pos + 1
      right == left + 1
      childpos == IF right < endpos /\ ~TupleLT(heap[left + 1], heap[right + 1])
                    THEN right ELSE left
  IN IF left < endpos
       THEN SiftUpFrom([heap EXCEPT ![pos + 1] = heap[childpos + 1]],
                       newitem, startpos, childpos)
       ELSE SiftDown([heap EXCEPT ![pos + 1] = newitem], startpos, pos)

\* heapq._siftup(heap, pos)
SiftUp(heap, pos) == SiftUpFrom(heap, heap[pos + 1], pos, pos)

\* heapq.heappush(heap, item): the heap afterwards
HeapPush(heap, item) == SiftDown(Append(heap, item), 0, Len(heap))

\* heapq.heappop(heap): the entry returned
HeapPopItem(heap) == heap[1]

\* heapq.heappop(heap): the heap afterwards
HeapPopRest(heap) ==
  IF Len(heap) = 1 THEN << >>
  ELSE SiftUp([SubSeq(heap, 1, Len(heap) - 1) EXCEPT ![1] = heap[Len(heap)]], 0)


(***************************************************************************)
(* The parameter tuner (sorter/auto_config.py).  Memory sizes are bytes;   *)
(* the thresholds c * MB are compared as available_mem \div MB < c, which  *)
(* is the same comparison on integers.                                     *)
(***************************************************************************)
MB == 1024 * 1024

MIN_BLOCK == 4096

CeilDiv(a, b) == (a + b - 1) \div b

choose_k(available_mem) ==
  IF available_mem \div MB < 256 THEN 8
  ELSE IF available_mem \div MB < 512 THEN 16
  ELSE IF available_mem \div MB < 2 * 1024 THEN 32
  ELSE IF available_mem \div MB < 8 * 1024 THEN 64
  ELSE 96

\* auto_tune_params(input_file), given the file's size and
\* available_mem = int(mem.available * ram_ratio)
auto_tune_params(file_size, available_mem) ==
  LET N == file_size \div 8
      kk == choose_k(available_mem)
      max_block == available_mem \div (8 * (kk + 1))
      target_block == CeilDiv(N, kk * kk)
  IN [block_size |-> Max(Min(max_block, target_block), MIN_BLOCK), k |-> kk]

(***************************************************************************)
(* Files.  The input file is its whole records and a number of trailing    *)
(* bytes (0 when the length is a multiple of 8).  Run files hold whole     *)
(* records only (struct.pack wrote them).                                  *)
(***************************************************************************)
FileSize(f) == 8 * Len(f.recs) + f.tail

\* os.path.join(self.work_dir, f"run_{run_id}.bin"), inside the work directory
RunPath(id) == "run_" \o ToString(id) \o ".bin"

\* os.path.join(self.work_dir, f"pass{pass_id}_run{group_id}.bin")
PassRunPath(p, g) == "pass" \o ToString(p) \o "_run" \o ToString(g) \o ".bin"

\* open(path, "wb") followed by writes: the directory with path holding recs
WriteFile(dir, path, recs) ==
  [p \in DOMAIN dir \cup {path} |-> IF p = path THEN recs ELSE dir[p]]

\* os.unlink(path) / the source side of a rename
RemoveFile(dir, path) == [p \in DOMAIN dir \ {path} |-> dir[p]]

EmptyDir == [p \in {} |-> << >>]

Absent == [exists |-> FALSE, recs |-> << >>]
Present(recs) == [exists |-> TRUE, recs |-> recs]

\* Python's s[lo:hi] for any integers lo, hi
PySlice(s, lo, hi) ==
  LET n == Len(s)
      l == IF lo < 0 THEN Max(lo + n, 0) ELSE Min(lo, n)
      h == IF hi < 0 THEN Max(hi + n, 0) ELSE Min(hi, n)
  IN SubSeq(s, l + 1, h)

INPUT_BUFFER_LOG_FREQ == 10
VISUALIZE_HEAP_LOG_EVERY == 1

(***************************************************************************)
(* State.                                                                  *)
(***************************************************************************)
VARIABLES
  input_file,       \* the caller's input file: [recs, tail]
  output_file,      \* the destination path: [exists, recs]
  output_before,    \* what was at the destination path when sort() was called
  first_run,        \* None, or <<the parameters and output of an earlier sort>>
  block_size,       \* self.block_size (None or <<n>>)
  k,                \* self.k (None or <<n>>)
  visualize,        \* self.visualize
  file_size,        \* auto_tune_params: file_size (None before the call)
  available_mem,    \* auto_tune_params: available_mem (None before the call)
  work_dir_name,    \* self.work_dir: the name tempfile.mkdtemp returned
  tmp_root,         \* the temp root but for self.work_dir: name -> files
  parked,           \* None, or <<a second sorter whose thread is not running>>
  work_dir_exists,  \* whether self.work_dir is on disk
  work_dir,         \* the files of self.work_dir: path -> records
  last_work_dir,    \* the files self.work_dir held when cleanup() was called
  runs,             \* self.runs
  steps,            \* self.steps
  pc,               \* where sort() is
  exc,              \* the exception in flight ("none" when there is none)
  exc_at,           \* the pc at which it was raised
  in_pos,           \* generate_runs: byte offset of f in the input file
  run_id,           \* generate_runs: run_id
  current,          \* multi_pass_merge: current (merge_pass: runs)
  pass_id,          \* multi_pass_merge: pass_id
  new_runs,         \* merge_pass: new_runs
  i,                \* merge_pass: i
  group_id,         \* merge_pass: group_id
  input_runs,       \* merge_k_runs: input_runs
  output_run,       \* merge_k_runs: output_run
  files,            \* merge_k_runs: files, each [path, pos, open]
  heap,             \* merge_k_runs: heap
  heap_op_count,    \* merge_k_runs: heap_op_count
  merged_count,     \* merge_k_runs: merged_count
  final,            \* sort: final (None or <<path>>)
  jobs,             \* main.py: jobs, job_id -> status string
  job_pc,           \* main.py: where the thread of run_sort is
  input_on_disk,    \* main.py: whether the upload is at input_path
  steps_file,       \* main.py: the file steps_<job_id>.json
  response          \* main.py: the last answer to a request (None: none yet)

vars ==
  <<input_file, output_file, output_before, first_run, block_size, k, visualize,
    file_size, available_mem, work_dir_name, tmp_root, parked, work_dir_exists,
    work_dir, last_work_dir, runs, steps, pc, exc, exc_at, in_pos, run_id, current, pass_id,
    new_runs, i, group_id, input_runs, output_run, files, heap,
    heap_op_count, merged_count, final, jobs, job_pc, input_on_disk,
    steps_file, response>>

otherVars == <<work_dir_name, tmp_root, parked>>

jobVars == <<jobs, job_pc, input_on_disk, steps_file, response>>

objVars ==
  <<input_file, output_before, first_run, block_size, k, visualize, file_size,
    available_mem, last_work_dir, otherVars, jobVars>>
genVars == <<in_pos, run_id>>
passVars == <<current, pass_id, new_runs, i, group_id>>
mergeVars == <<input_runs, output_run, files, heap, heap_op_count, merged_count>>

\* jobs = {}
NoJobs == [j \in {} |-> ""]

\* a path of the output directory with no file at it
NoFile == [exists |-> FALSE, complete |-> FALSE, steps |-> << >>]

\* Sequences over S of length at most n
SeqsUpTo(S, n) == UNION {[1..m -> S] : m \in 0..n}

(***************************************************************************)
(* The state after ExternalMergeSorter(input_file, block_size, k,          *)
(* visualize): __init__ has made the work directory (tempfile.mkdtemp)     *)
(* and sort() has not been called.                                         *)
(***************************************************************************)
InitWith(Files, BlockSizes, Ks, Visualizes, Outputs) ==
  /\ input_file \in Files
  /\ output_file \in Outputs
  /\ output_before = output_file
  /\ first_run = None
  /\ block_size \in BlockSizes
  /\ k \in Ks
  /\ visualize \in Visualizes
  /\ file_size = None
  /\ available_mem = None
  /\ work_dir_name = "tmp_a"
  /\ tmp_root = EmptyDir
  /\ parked = None
  /\ work_dir_exists = TRUE
  /\ work_dir = EmptyDir
  /\ last_work_dir = EmptyDir
  /\ runs = << >>
  /\ steps = << >>
  /\ pc = "init"
  /\ exc = "none"
  /\ exc_at = "none"
  /\ in_pos = 0
  /\ run_id = 0
  /\ current = << >>
  /\ pass_id = 0
  /\ new_runs = << >>
  /\ i = 0
  /\ group_id = 0
  /\ input_runs = << >>
  /\ output_run = ""
  /\ files = << >>
  /\ heap = << >>
  /\ heap_op_count = 0
  /\ merged_count = 0
  /\ final = None
  /\ jobs = NoJobs
  /\ job_pc = "none"
  /\ input_on_disk = TRUE
  /\ steps_file = NoFile
  /\ response = None

\* An exception leaves the try block of sort() for its finally clause.
Raise(e) ==
  /\ pc' = "finally"
  /\ exc' = e
  /\ exc_at' = pc

\* The memory psutil may report (bytes, after ram_ratio)
AvailableMems == {200 * 1024, 100 * MB, 300 * MB, 1024 * MB}

(***************************************************************************)
(* sort(), lines 279-292: tune the missing parameters, log params_chosen.  *)
(***************************************************************************)
SortCall ==
  /\ pc = "init"
  /\ \E mem \in IF block_size = None \/ k = None THEN AvailableMems ELSE {0} :
       LET t == auto_tune_params(FileSize(input_file), mem)
           b == IF block_size = None THEN Some(t.block_size) ELSE block_size
           kk == IF k = None THEN Some(t.k) ELSE k
       IN /\ block_size' = b
          /\ k' = kk
          /\ IF block_size = None \/ k = None
               THEN /\ file_size' = Some(FileSize(input_file))
                    /\ available_mem' = Some(mem)
               ELSE UNCHANGED <<file_size, available_mem>>
          /\ steps' = Append(steps, [type |-> "params_chosen",
                                     block_size |-> b[1], k |-> kk[1]])
  /\ pc' = "generate_runs"
  /\ UNCHANGED <<input_file, output_file, output_before, first_run, visualize,
                 otherVars, jobVars, work_dir_exists, work_dir, last_work_dir, runs, exc,
                 exc_at, genVars, passVars, mergeVars, final>>

\* Mutant of GenerateRunsOpen: the old output is removed before the runs are
\* generated.
GenerateRunsOpen_RemovesOutput ==
  /\ pc = "generate_runs"
  /\ runs' = << >>
  /\ run_id' = 0
  /\ in_pos' = 0
  /\ steps' = Append(steps, [type |-> "file_info",
                             file_size |-> FileSize(input_file)])
  /\ output_file' = Absent
  /\ pc' = "read_block"
  /\ UNCHANGED <<objVars, work_dir_exists, work_dir, exc, exc_at, passVars,
                 mergeVars, final>>

(***************************************************************************)
(* generate_runs(), lines 98-112: reset, log file_info, open the input.    *)
(***************************************************************************)
GenerateRunsOpen ==
  /\ pc = "generate_runs"
  /\ runs' = << >>
  /\ run_id' = 0
  /\ in_pos' = 0
  /\ steps' = Append(steps, [type |-> "file_info",
                             file_size |-> FileSize(input_file)])
  /\ pc' = "read_block"
  /\ UNCHANGED <<objVars, output_file, work_dir_exists, work_dir, exc, exc_at,
                 passVars, mergeVars, final>>

\* _read_block, line 40: struct.unpack(f"{len(chunk)//8}d", chunk) raises
\* struct.error unless chunk is exactly len(chunk)//8 doubles long
UnpackFails(chunk_len) == chunk_len # 8 * (chunk_len \div 8)

\* _read_block: the number of bytes f.read(8 * self.block_size) returns
ChunkLen == Min(8 * block_size[1], FileSize(input_file) - in_pos)

(***************************************************************************)
(* generate_runs(), lines 113-146: one turn of the while loop (read a      *)
(* block, sort it, write the run), or the break and the meta event.        *)
(***************************************************************************)
GenerateRun ==
  /\ pc = "read_block"
  /\ IF 8 * block_size[1] < 0
       THEN \* f.read(n) with n < -1
            /\ Raise("ValueError")
            /\ UNCHANGED <<work_dir, runs, steps, genVars>>
       ELSE IF ChunkLen = 0
       THEN \* nums is None: break, then steps.insert(0, meta)
            /\ steps' = <<[type |-> "meta", block_size |-> block_size[1],
                           k |-> k[1], runs_count |-> Len(runs)]>> \o steps
            /\ pc' = "multi_pass_merge"
            /\ UNCHANGED <<work_dir, runs, genVars, exc, exc_at>>
       ELSE IF UnpackFails(ChunkLen)
       THEN \* struct.unpack: the buffer is longer than len(chunk)//8 doubles
            /\ Raise("struct.error")
            /\ UNCHANGED <<work_dir, runs, steps, genVars>>
       ELSE LET nums == SubSeq(input_file.recs, (in_pos \div 8) + 1,
                               (in_pos + ChunkLen) \div 8)
                run_path == RunPath(run_id)
            IN /\ work_dir' = WriteFile(work_dir, run_path, ListSort(nums))
               /\ steps' = steps \o
                    <<[type |-> "read_block", run_index |-> run_id,
                       count |-> Len(nums)],
                      [type |-> "sort_block", run_index |-> run_id,
                       count |-> Len(nums)]>>
               /\ runs' = Append(runs, run_path)
               /\ run_id' = run_id + 1
               /\ in_pos' = in_pos + ChunkLen
               /\ UNCHANGED <<pc, exc, exc_at>>
  /\ UNCHANGED <<objVars, output_file, work_dir_exists, passVars, mergeVars,
                 final>>

(***************************************************************************)
(* multi_pass_merge(), lines 265-266.                                      *)
(***************************************************************************)
MultiPassMergeBegin ==
  /\ pc = "multi_pass_merge"
  /\ current' = runs
  /\ pass_id' = 0
  /\ pc' = "pass_loop"
  /\ UNCHANGED <<objVars, output_file, work_dir_exists, work_dir, runs, steps,
                 exc, exc_at, genVars, new_runs, i, group_id, mergeVars, final>>

\* Mutant of PassLoop: "while len(current) > 2".
PassLoop_OffByOne ==
  /\ pc = "pass_loop"
  /\ Len(current) > 2 => pass_id < MaxPasses
  /\ IF Len(current) > 2
       THEN /\ steps' = Append(steps, [type |-> "pass_info", pass_id |-> pass_id,
                                       runs_before |-> Len(current), k |-> k[1]])
            /\ new_runs' = << >>
            /\ i' = 0
            /\ group_id' = 0
            /\ pc' = "merge_pass"
            /\ UNCHANGED final
       ELSE /\ final' = IF current # << >> THEN Some(current[1]) ELSE None
            /\ pc' = "finalize"
            /\ UNCHANGED <<steps, new_runs, i, group_id>>
  /\ UNCHANGED <<objVars, output_file, work_dir_exists, work_dir, runs, exc,
                 exc_at, genVars, current, pass_id, mergeVars>>

(***************************************************************************)
(* multi_pass_merge(), lines 267-276: the test of "while len(current) > 1";*)
(* a pass begins (pass_info, merge_pass lines 251-253) or the loop exits   *)
(* and the surviving run, if any, is returned to sort() (line 295).        *)
(***************************************************************************)
PassLoop ==
  /\ pc = "pass_loop"
  /\ Len(current) > 1 => pass_id < MaxPasses
  /\ IF Len(current) > 1
       THEN /\ steps' = Append(steps, [type |-> "pass_info", pass_id |-> pass_id,
                                       runs_before |-> Len(current), k |-> k[1]])
            /\ new_runs' = << >>
            /\ i' = 0
            /\ group_id' = 0
            /\ pc' = "merge_pass"
            /\ UNCHANGED final
       ELSE /\ final' = IF current # << >> THEN Some(current[1]) ELSE None
            /\ pc' = "finalize"
            /\ UNCHANGED <<steps, new_runs, i, group_id>>
  /\ UNCHANGED <<objVars, output_file, work_dir_exists, work_dir, runs, exc,
                 exc_at, genVars, current, pass_id, mergeVars>>

\* Mutant of MergePassLoop: the group is runs[i:i + k + 1].
MergePassLoop_WideGroup ==
  /\ pc = "merge_pass"
  /\ i < Len(current) => group_id < MaxGroups
  /\ IF i < Len(current)
       THEN /\ input_runs' = PySlice(current, i, i + k[1] + 1)
            /\ output_run' = PassRunPath(pass_id, group_id)
            /\ pc' = "merge_open"
            /\ UNCHANGED <<current, pass_id>>
       ELSE /\ current' = new_runs
            /\ pass_id' = pass_id + 1
            /\ pc' = "pass_loop"
            /\ UNCHANGED <<input_runs, output_run>>
  /\ UNCHANGED <<objVars, output_file, work_dir_exists, work_dir, runs, steps,
                 exc, exc_at, genVars, new_runs, i, group_id, files, heap,
                 heap_op_count, merged_count, final>>

(***************************************************************************)
(* merge_pass(), lines 254-257 and 261, with lines 274-275 of the caller:  *)
(* the test of "while i < len(runs)"; the next group is handed to          *)
(* merge_k_runs, or the pass returns new_runs.                             *)
(***************************************************************************)
MergePassLoop ==
  /\ pc = "merge_pass"
  /\ i < Len(current) => group_id < MaxGroups
  /\ IF i < Len(current)
       THEN /\ input_runs' = PySlice(current, i, i + k[1])
            /\ output_run' = PassRunPath(pass_id, group_id)
            /\ pc' = "merge_open"
            /\ UNCHANGED <<current, pass_id>>
       ELSE /\ current' = new_runs
            /\ pass_id' = pass_id + 1
            /\ pc' = "pass_loop"
            /\ UNCHANGED <<input_runs, output_run>>
  /\ UNCHANGED <<objVars, output_file, work_dir_exists, work_dir, runs, steps,
                 exc, exc_at, genVars, new_runs, i, group_id, files, heap,
                 heap_op_count, merged_count, final>>

\* _read_double(f) on handle h: the record read, << >> for None at the end
ReadDouble(h) ==
  IF h.pos < Len(work_dir[h.path]) THEN <<work_dir[h.path][h.pos + 1]>> ELSE << >>

\* the handle after _read_double
Advance(h) ==
  IF h.pos < Len(work_dir[h.path]) THEN [h EXCEPT !.pos = h.pos + 1] ELSE h

\* open(r, "rb")
OpenRun(path) == [path |-> path, pos |-> 0, open |-> TRUE]

\* merge_k_runs(), lines 154-169: the first record of every input run is
\* pushed, source by source; the heap, the count of heap operations and the
\* heap_push events (visualize mode) after sources n+1.. of fs.
RECURSIVE FirstPushes(_, _, _)
FirstPushes(fs, n, acc) ==
  IF n = Len(fs) THEN acc
  ELSE LET num == ReadDouble(fs[n + 1])
       IN IF num = << >> THEN FirstPushes(fs, n + 1, acc)
          ELSE FirstPushes(fs, n + 1,
                 [heap |-> HeapPush(acc.heap, <<num[1], n>>),
                  count |-> acc.count + 1,
                  events |-> IF visualize
                               THEN Append(acc.events,
                                      [type |-> "heap_push", pass_id |-> pass_id,
                                       group_id |-> group_id, value |-> num[1],
                                       src |-> n])
                               ELSE acc.events])

(***************************************************************************)
(* merge_k_runs(), lines 150-182: open the inputs, push their first        *)
(* records, log merge_start.                                               *)
(***************************************************************************)
MergeOpen ==
  /\ pc = "merge_open"
  /\ IF \E j \in 1..Len(input_runs) : input_runs[j] \notin DOMAIN work_dir
       THEN \* open() raises; the handles opened before it stay open
            LET bad == CHOOSE j \in 1..Len(input_runs) :
                         /\ input_runs[j] \notin DOMAIN work_dir
                         /\ \A l \in 1..(j - 1) : input_runs[l] \in DOMAIN work_dir
            IN /\ files' = [j \in 1..(bad - 1) |-> OpenRun(input_runs[j])]
               /\ Raise("FileNotFoundError")
               /\ UNCHANGED <<heap, heap_op_count, merged_count, steps>>
       ELSE LET opened == [j \in 1..Len(input_runs) |-> OpenRun(input_runs[j])]
                first == FirstPushes(opened, 0,
                           [heap |-> << >>, count |-> 0, events |-> << >>])
            IN /\ files' = [j \in 1..Len(opened) |-> Advance(opened[j])]
               /\ heap' = first.heap
               /\ heap_op_count' = first.count
               /\ merged_count' = 0
               /\ steps' = (steps \o first.events) \o
                    <<[type |-> "merge_start", pass_id |-> pass_id,
                       group_id |-> group_id, inputs |-> input_runs]>>
               /\ pc' = "merge_out"
               /\ UNCHANGED <<exc, exc_at>>
  /\ UNCHANGED <<objVars, output_file, work_dir_exists, work_dir, runs, genVars,
                 passVars, input_runs, output_run, final>>

(***************************************************************************)
(* merge_k_runs(), line 184: open(output_run, "wb").                       *)
(***************************************************************************)
MergeOpenOut ==
  /\ pc = "merge_out"
  /\ work_dir' = WriteFile(work_dir, output_run, << >>)
  /\ pc' = "merge_loop"
  /\ UNCHANGED <<objVars, output_file, work_dir_exists, runs, steps, exc, exc_at,
                 genVars, passVars, mergeVars, final>>

\* merge_k_runs(), lines 189-237: the events of one turn of "while heap",
\* given the popped entry, the record read next (<< >> for None) and the
\* new merged_count.
StepEvents(value, src_idx, nxt, count) ==
  LET ev(t) == [type |-> t, pass_id |-> pass_id, group_id |-> group_id]
      log_freq == IF visualize THEN 1 ELSE INPUT_BUFFER_LOG_FREQ
  IN (IF visualize /\ (heap_op_count + 1) % VISUALIZE_HEAP_LOG_EVERY = 0
        THEN <<ev("heap_pop") @@ [value |-> value, src |-> src_idx]>>
        ELSE << >>)
     \o (IF count % log_freq = 0
           THEN <<ev("output_emit") @@ [value |-> value, emitted_count |-> count]>>
           ELSE << >>)
     \o (IF nxt # << >> /\ visualize
              /\ (heap_op_count + 2) % VISUALIZE_HEAP_LOG_EVERY = 0
           THEN <<ev("heap_push") @@ [value |-> nxt[1], src |-> src_idx]>>
           ELSE << >>)
     \o (IF count % INPUT_BUFFER_LOG_FREQ = 0
           THEN <<ev("input_buffer_update") @@ [consumed_count |-> count]>>
           ELSE << >>)

\* Mutant of MergeStep: the next record of the source is pushed inside the
\* "if self.visualize" block that logs the push.
MergeStep_PushOnlyWhenLogged ==
  /\ pc = "merge_loop"
  /\ heap # << >>
  /\ LET value == HeapPopItem(heap)[1]
         src_idx == HeapPopItem(heap)[2]
         rest == HeapPopRest(heap)
         nxt == ReadDouble(files[src_idx + 1])
     IN /\ work_dir' = [work_dir EXCEPT ![output_run] = Append(@, value)]
        /\ merged_count' = merged_count + 1
        /\ files' = [files EXCEPT ![src_idx + 1] = Advance(@)]
        /\ heap' = IF nxt # << >> /\ visualize
                     THEN HeapPush(rest, <<nxt[1], src_idx>>) ELSE rest
        /\ heap_op_count' = heap_op_count + (IF nxt # << >> THEN 2 ELSE 1)
        /\ steps' = steps \o StepEvents(value, src_idx, nxt, merged_count + 1)
  /\ UNCHANGED <<objVars, output_file, work_dir_exists, runs, pc, exc, exc_at,
                 genVars, passVars, input_runs, output_run, final>>

\* Mutant of MergeStep: the next record of the source is pushed only when it
\* differs from the record just written.
MergeStep_SkipsRepeated ==
  /\ pc = "merge_loop"
  /\ heap # << >>
  /\ LET value == HeapPopItem(heap)[1]
         src_idx == HeapPopItem(heap)[2]
         rest == HeapPopRest(heap)
         nxt == ReadDouble(files[src_idx + 1])
     IN /\ work_dir' = [work_dir EXCEPT ![output_run] = Append(@, value)]
        /\ merged_count' = merged_count + 1
        /\ files' = [files EXCEPT ![src_idx + 1] = Advance(@)]
        /\ heap' = IF nxt # << >> /\ nxt[1] # value
                     THEN HeapPush(rest, <<nxt[1], src_idx>>) ELSE rest
        /\ heap_op_count' = heap_op_count + (IF nxt # << >> THEN 2 ELSE 1)
        /\ steps' = steps \o StepEvents(value, src_idx, nxt, merged_count + 1)
  /\ UNCHANGED <<objVars, output_file, work_dir_exists, runs, pc, exc, exc_at,
                 genVars, passVars, input_runs, output_run, final>>

(***************************************************************************)
(* merge_k_runs(), lines 185-237: one turn of "while heap": pop the        *)
(* least entry, write its value, read the next record of its source and    *)
(* push it.                                                                *)
(***************************************************************************)
MergeStep ==
  /\ pc = "merge_loop"
  /\ heap # << >>
  /\ LET value == HeapPopItem(heap)[1]
         src_idx == HeapPopItem(heap)[2]
         rest == HeapPopRest(heap)
         nxt == ReadDouble(files[src_idx + 1])
     IN /\ work_dir' = [work_dir EXCEPT ![output_run] = Append(@, value)]
        /\ merged_count' = merged_count + 1
        /\ files' = [files EXCEPT ![src_idx + 1] = Advance(@)]
        /\ heap' = IF nxt # << >> THEN HeapPush(rest, <<nxt[1], src_idx>>) ELSE rest
        /\ heap_op_count' = heap_op_count + (IF nxt # << >> THEN 2 ELSE 1)
        /\ steps' = steps \o StepEvents(value, src_idx, nxt, merged_count + 1)
  /\ UNCHANGED <<objVars, output_file, work_dir_exists, runs, pc, exc, exc_at,
                 genVars, passVars, input_runs, output_run, final>>

\* Mutant of MergeClose: "i += 1" instead of "i += self.k".
MergeClose_StepOne ==
  /\ pc = "merge_loop"
  /\ heap = << >>
  /\ files' = [j \in 1..Len(files) |-> [files[j] EXCEPT !.open = FALSE]]
  /\ steps' = Append(steps, [type |-> "merge_end", pass_id |-> pass_id,
                             group_id |-> group_id, merged_count |-> merged_count])
  /\ new_runs' = Append(new_runs, output_run)
  /\ i' = i + 1
  /\ group_id' = group_id + 1
  /\ pc' = "merge_pass"
  /\ UNCHANGED <<objVars, output_file, work_dir_exists, work_dir, runs, exc,
                 exc_at, genVars, current, pass_id, input_runs, output_run, heap,
                 heap_op_count, merged_count, final>>

(***************************************************************************)
(* merge_k_runs(), lines 239-247, and merge_pass(), lines 258-260: the     *)
(* heap is empty; close the output and the inputs, log merge_end, record   *)
(* the merged run and move to the next group.                              *)
(***************************************************************************)
MergeClose ==
  /\ pc = "merge_loop"
  /\ heap = << >>
  /\ files' = [j \in 1..Len(files) |-> [files[j] EXCEPT !.open = FALSE]]
  /\ steps' = Append(steps, [type |-> "merge_end", pass_id |-> pass_id,
                             group_id |-> group_id, merged_count |-> merged_count])
  /\ new_runs' = Append(new_runs, output_run)
  /\ i' = i + k[1]
  /\ group_id' = group_id + 1
  /\ pc' = "merge_pass"
  /\ UNCHANGED <<objVars, output_file, work_dir_exists, work_dir, runs, exc,
                 exc_at, genVars, current, pass_id, input_runs, output_run, heap,
                 heap_op_count, merged_count, final>>

\* Mutant of Finalize: without a final run the destination is opened "ab",
\* which keeps what a file already there holds.
Finalize_KeepsPrior ==
  /\ pc = "finalize"
  /\ IF final = None
       THEN /\ output_file' = IF output_file.exists THEN output_file
                                                   ELSE Present(<< >>)
            /\ pc' = "preview"
       ELSE /\ output_file' = IF output_file.exists THEN Absent ELSE output_file
            /\ pc' = "move"
  /\ UNCHANGED <<objVars, work_dir_exists, work_dir, runs, steps, exc, exc_at,
                 genVars, passVars, mergeVars, final>>

\* Mutant of Finalize: the finished event is logged before the final run is
\* moved to the destination.
Finalize_LogsFinished ==
  /\ pc = "finalize"
  /\ IF final = None
       THEN /\ output_file' = Present(<< >>)
            /\ pc' = "preview"
       ELSE /\ output_file' = IF output_file.exists THEN Absent ELSE output_file
            /\ pc' = "move"
  /\ steps' = Append(steps, [type |-> "finished", final_preview |-> << >>])
  /\ UNCHANGED <<objVars, work_dir_exists, work_dir, runs, exc, exc_at,
                 genVars, passVars, mergeVars, final>>

(***************************************************************************)
(* sort(), lines 297-302: the parent directory exists afterwards           *)
(* (os.makedirs); without a final run the destination is opened "wb" and   *)
(* closed, otherwise a file already there is removed (os.remove).          *)
(***************************************************************************)
Finalize ==
  /\ pc = "finalize"
  /\ IF final = None
       THEN /\ output_file' = Present(<< >>)
            /\ pc' = "preview"
       ELSE /\ output_file' = IF output_file.exists THEN Absent ELSE output_file
            /\ pc' = "move"
  /\ UNCHANGED <<objVars, work_dir_exists, work_dir, runs, steps, exc, exc_at,
                 genVars, passVars, mergeVars, final>>

(***************************************************************************)
(* sort(), line 303: shutil.move(final, output_file) when the work         *)
(* directory and the destination are on one filesystem: os.rename.         *)
(***************************************************************************)
MoveRename ==
  /\ pc = "move"
  /\ output_file' = Present(work_dir[final[1]])
  /\ work_dir' = RemoveFile(work_dir, final[1])
  /\ pc' = "preview"
  /\ UNCHANGED <<objVars, work_dir_exists, runs, steps, exc, exc_at, genVars,
                 passVars, mergeVars, final>>

(***************************************************************************)
(* sort(), line 303: shutil.move across filesystems: os.rename fails and   *)
(* the file is copied (shutil.copy2), the destination being created empty  *)
(* first ...                                                               *)
(***************************************************************************)
MoveCopyOpen ==
  /\ pc = "move"
  /\ output_file' = Present(<< >>)
  /\ pc' = "move_copy"
  /\ UNCHANGED <<objVars, work_dir_exists, work_dir, runs, steps, exc, exc_at,
                 genVars, passVars, mergeVars, final>>

(***************************************************************************)
(* ... then filled, and the source unlinked.                               *)
(***************************************************************************)
MoveCopyData ==
  /\ pc = "move_copy"
  /\ output_file' = Present(work_dir[final[1]])
  /\ work_dir' = RemoveFile(work_dir, final[1])
  /\ pc' = "preview"
  /\ UNCHANGED <<objVars, work_dir_exists, runs, steps, exc, exc_at, genVars,
                 passVars, mergeVars, final>>

PREVIEW_LIMIT == 120

(***************************************************************************)
(* sort(), lines 305-319: read the preview back, log finished.             *)
(***************************************************************************)
Preview ==
  /\ pc = "preview"
  /\ steps' = Append(steps, [type |-> "finished",
                             final_preview |-> SubSeq(output_file.recs, 1,
                                Min(PREVIEW_LIMIT, Len(output_file.recs)))])
  /\ pc' = "finally"
  /\ UNCHANGED <<objVars, output_file, work_dir_exists, work_dir, runs, exc,
                 exc_at, genVars, passVars, mergeVars, final>>

(***************************************************************************)
(* sort(), lines 321-322, and cleanup(): the finally clause removes the    *)
(* work directory; sort() then returns, or the exception propagates.       *)
(***************************************************************************)
Cleanup ==
  /\ pc = "finally"
  /\ last_work_dir' = work_dir
  /\ work_dir_exists' = FALSE
  /\ work_dir' = EmptyDir
  /\ pc' = IF exc = "none" THEN "returned" ELSE "raised"
  /\ UNCHANGED <<input_file, output_before, first_run, block_size, k, visualize,
                 file_size, available_mem, otherVars, jobVars, output_file, runs, steps,
                 exc, exc_at, genVars, passVars, mergeVars, final>>

Next ==
  \/ SortCall
  \/ GenerateRunsOpen
  \/ GenerateRun
  \/ MultiPassMergeBegin
  \/ PassLoop
  \/ MergePassLoop
  \/ MergeOpen
  \/ MergeOpenOut
  \/ MergeStep
  \/ MergeClose
  \/ Finalize
  \/ MoveRename
  \/ MoveCopyOpen
  \/ MoveCopyData
  \/ Preview
  \/ Cleanup

(***************************************************************************)
(* The environment failing: an OSError from a file operation of            *)
(* generate_runs (lines 102-129), merge_k_runs (lines 150-214) or the      *)
(* finalization (lines 297-303).                                           *)
(***************************************************************************)
IOPoints ==
  {"generate_runs", "read_block", "merge_open", "merge_out", "merge_loop",
   "finalize", "move", "move_copy"}

IOError ==
  /\ pc \in IOPoints
  /\ Raise("OSError")
  /\ UNCHANGED <<objVars, output_file, work_dir_exists, work_dir, runs, steps,
                 genVars, passVars, mergeVars, final>>

(***************************************************************************)
(* cleanup(), line 33: shutil.rmtree(..., ignore_errors=True) failing: the *)
(* error is swallowed and the directory stays.                             *)
(***************************************************************************)
CleanupFails ==
  /\ pc = "finally"
  /\ last_work_dir' = work_dir
  /\ pc' = IF exc = "none" THEN "returned" ELSE "raised"
  /\ UNCHANGED <<input_file, output_before, first_run, block_size, k, visualize,
                 file_size, available_mem, otherVars, jobVars, output_file, work_dir_exists,
                 work_dir, runs, steps, exc, exc_at, genVars, passVars, mergeVars,
                 final>>

NextF == Next \/ IOError \/ CleanupFails

(***************************************************************************)
(* Inputs.                                                                 *)
(***************************************************************************)
Records == {NaN, "-0.0", "0.0", "1.0"}

PartialTails == {1, 7}

ValidFiles == {[recs |-> r, tail |-> 0] : r \in SeqsUpTo(Records, MaxLen)}

MalformedFiles ==
  {[recs |-> r, tail |-> t] : r \in SeqsUpTo(Records, MaxLen - 1), t \in PartialTails}

ValidBlockSizes == {Some(b) : b \in 1..MaxBlock}

ValidKs == {Some(kk) : kk \in 2..MaxK}

PriorRecs == <<"9.0">>

Outputs == {Absent, Present(PriorRecs)}

Init == InitWith(ValidFiles \cup MalformedFiles, ValidBlockSizes \cup {None},
                 ValidKs \cup {None}, {FALSE}, Outputs)

Spec == Init /\ [][Next]_vars

(***************************************************************************)
(* A caller sorting the same input again with other parameters             *)
(* (external_merge_sort(), lines 408-412: a fresh sorter, whose __init__   *)
(* makes a new work directory, then sort()).  The first output is kept     *)
(* for comparison.                                                         *)
(***************************************************************************)
SortAgain ==
  /\ pc = "returned"
  /\ first_run = None
  /\ first_run' = Some([block_size |-> block_size[1], k |-> k[1],
                        recs |-> output_file.recs])
  /\ \E b \in ValidBlockSizes, kk \in ValidKs :
       /\ <<b, kk>> # <<block_size, k>>
       /\ block_size' = b
       /\ k' = kk
  /\ output_before' = output_file
  /\ work_dir_exists' = TRUE
  /\ work_dir' = EmptyDir
  /\ runs' = << >>
  /\ steps' = << >>
  /\ pc' = "init"
  /\ UNCHANGED <<input_file, output_file, visualize, file_size, available_mem,
                 otherVars, jobVars, last_work_dir, exc, exc_at, genVars, passVars,
                 mergeVars, final>>

NextAgain == Next \/ SortAgain

InitAgain == InitWith(ValidFiles, ValidBlockSizes, ValidKs, {FALSE}, {Absent})

SpecAgain == InitAgain /\ [][NextAgain]_vars

SpecFaults == Init /\ [][NextF]_vars

(***************************************************************************)
(* A caller sorting the output of a sort: a fresh sorter                   *)
(* (external_merge_sort(), lines 408-412) whose input is the file the      *)
(* first sort produced, with the same parameters, and whose destination is *)
(* another, absent path.                                                   *)
(***************************************************************************)
SortOutput ==
  /\ pc = "returned"
  /\ first_run = None
  /\ first_run' = Some([block_size |-> block_size[1], k |-> k[1],
                        recs |-> output_file.recs])
  /\ input_file' = [recs |-> output_file.recs, tail |-> 0]
  /\ output_file' = Absent
  /\ output_before' = Absent
  /\ work_dir_exists' = TRUE
  /\ work_dir' = EmptyDir
  /\ runs' = << >>
  /\ steps' = << >>
  /\ pc' = "init"
  /\ UNCHANGED <<block_size, k, visualize, file_size, available_mem, otherVars, jobVars,
                 last_work_dir, exc, exc_at, genVars, passVars, mergeVars, final>>

NextResort == Next \/ SortOutput

SpecResort == InitAgain /\ [][NextResort]_vars

InvalidBlockSizes == {Some(-1), Some(0)}

InvalidKs == {Some(-1), Some(0), Some(1)}

InitAnyParams ==
  InitWith({f \in ValidFiles \cup MalformedFiles : Len(f.recs) \in 1..(MaxLen - 1)},
           ValidBlockSizes \cup InvalidBlockSizes, ValidKs \cup InvalidKs,
           {FALSE}, Outputs)

SpecAnyParams == InitAnyParams /\ [][Next]_vars

\* Files of up to SchedRuns equal records: with block_size 1, as many runs
SchedFiles == {[recs |-> r, tail |-> 0] : r \in SeqsUpTo({"1.0"}, SchedRuns)}

InitSched ==
  InitWith(SchedFiles, {Some(1), Some(2)}, {Some(kk) : kk \in 2..(MaxK + 1)},
           {FALSE}, Outputs)

SpecSched == InitSched /\ [][Next]_vars

\* sort() is sequential code: a step that can be taken is taken
SpecSchedFair == InitSched /\ [][Next]_vars /\ WF_vars(Next)

(***************************************************************************)
(* A caller sorting the same input again with the same parameters and the  *)
(* other setting of visualize (ExternalMergeSorter(..., visualize=...),    *)
(* lines 22-30, then sort()), to another, absent path.  The output, the    *)
(* number of passes and the run files of the first sort are kept for       *)
(* comparison.                                                             *)
(***************************************************************************)
SortAgainVisualize ==
  /\ pc = "returned"
  /\ first_run = None
  /\ first_run' = Some([visualize |-> visualize, recs |-> output_file.recs,
                        passes |-> pass_id, files |-> last_work_dir])
  /\ visualize' = ~visualize
  /\ output_file' = Absent
  /\ output_before' = Absent
  /\ work_dir_exists' = TRUE
  /\ work_dir' = EmptyDir
  /\ runs' = << >>
  /\ steps' = << >>
  /\ pc' = "init"
  /\ UNCHANGED <<input_file, block_size, k, file_size, available_mem, otherVars, jobVars,
                 last_work_dir, exc, exc_at, genVars, passVars, mergeVars, final>>

NextVisualize == Next \/ SortAgainVisualize

InitVisualize ==
  InitWith(ValidFiles, ValidBlockSizes, ValidKs, {FALSE, TRUE}, {Absent})

SpecVisualize == InitVisualize /\ [][NextVisualize]_vars

\* Files holding five different records, in every order
DistinctRecords == {"1.0", "2.0", "3.0", "4.0", "5.0"}

DistinctFiles ==
  {[recs |-> r, tail |-> 0] :
     r \in {q \in [1..5 -> DistinctRecords] :
              \A a, b \in 1..5 : a # b => q[a] # q[b]}}

InitDistinct ==
  InitWith(DistinctFiles, {Some(2)}, {Some(2)}, {FALSE}, {Absent})

SpecDistinct == InitDistinct /\ [][Next]_vars

\* Files of up to TieLen records merged with a fan-in of TieK: one pass over
\* up to TieK runs, each one a block that list.sort() has put in order
TieLen == 5
TieK == 5

TieFiles == {[recs |-> r, tail |-> 0] : r \in SeqsUpTo(Records, TieLen)}

InitTie ==
  InitWith(TieFiles, {Some(1), Some(2)}, {Some(TieK)}, {FALSE}, {Absent})

SpecTie == InitTie /\ [][Next]_vars

(***************************************************************************)
(* Two sorters in one process, each run by its own thread (main.py, the    *)
(* threads sort_file starts on run_sort).  The variables above are the     *)
(* sorter of the thread that is running; the other sorter is parked.  The  *)
(* temp root is shared: a thread resumes with its work directory as the    *)
(* file system holds it then.                                              *)
(***************************************************************************)
ConcLen == 3

TmpNames == {"tmp_a", "tmp_b"}

\* the running sorter, as a record
ThisSorter ==
  [input_file |-> input_file, output_file |-> output_file,
   output_before |-> output_before, first_run |-> first_run,
   block_size |-> block_size, k |-> k, visualize |-> visualize,
   file_size |-> file_size, available_mem |-> available_mem,
   work_dir_name |-> work_dir_name, work_dir_exists |-> work_dir_exists,
   work_dir |-> work_dir, last_work_dir |-> last_work_dir, runs |-> runs,
   steps |-> steps, pc |-> pc, exc |-> exc, exc_at |-> exc_at,
   in_pos |-> in_pos, run_id |-> run_id, current |-> current,
   pass_id |-> pass_id, new_runs |-> new_runs, i |-> i,
   group_id |-> group_id, input_runs |-> input_runs,
   output_run |-> output_run, files |-> files, heap |-> heap,
   heap_op_count |-> heap_op_count, merged_count |-> merged_count,
   final |-> final]

\* a sorter after ExternalMergeSorter(f, block_size, k, visualize) made its
\* work directory under name, as a record
FreshSorter(f, name) ==
  [input_file |-> f, output_file |-> Absent, output_before |-> Absent,
   first_run |-> None, block_size |-> block_size, k |-> k,
   visualize |-> visualize, file_size |-> None, available_mem |-> None,
   work_dir_name |-> name, work_dir_exists |-> TRUE, work_dir |-> EmptyDir,
   last_work_dir |-> EmptyDir, runs |-> << >>, steps |-> << >>,
   pc |-> "init", exc |-> "none", exc_at |-> "none", in_pos |-> 0,
   run_id |-> 0, current |-> << >>, pass_id |-> 0, new_runs |-> << >>,
   i |-> 0, group_id |-> 0, input_runs |-> << >>, output_run |-> "",
   files |-> << >>, heap |-> << >>, heap_op_count |-> 0, merged_count |-> 0,
   final |-> None]

\* the temp root with the running sorter's work directory as it is now
TmpRootNow ==
  IF work_dir_exists THEN WriteFile(tmp_root, work_dir_name, work_dir)
                     ELSE tmp_root

ConcFiles ==
  {[recs |-> r, tail |-> 0] : r \in SeqsUpTo({"0.0", "1.0"}, ConcLen) \ {<< >>}}

\* Mutant of NewSorter: the work directory is a fixed path, made with
\* os.makedirs(..., exist_ok=True).
NewSorter_FixedDir ==
  /\ parked = None
  /\ \E f \in ConcFiles :
       parked' = Some(FreshSorter(f, work_dir_name))
  /\ tmp_root' = IF work_dir_exists THEN tmp_root
                  ELSE WriteFile(tmp_root, work_dir_name, EmptyDir)
  /\ UNCHANGED <<input_file, output_file, output_before, first_run, block_size,
                 k, visualize, file_size, available_mem, work_dir_name,
                 work_dir_exists, work_dir, last_work_dir, runs, steps, pc, exc,
                 exc_at, genVars, passVars, mergeVars, final, jobVars>>

(***************************************************************************)
(* external_merge_sort(), line 410, in a second thread while the first     *)
(* sorter is anywhere in its sort: ExternalMergeSorter.__init__ (lines     *)
(* 22-30); tempfile.mkdtemp makes a directory under a name that is not in  *)
(* use.  The new sorter has the block_size and k of the first.             *)
(***************************************************************************)
NewSorter ==
  /\ parked = None
  /\ \E f \in ConcFiles, name \in TmpNames \ DOMAIN TmpRootNow :
       /\ parked' = Some(FreshSorter(f, name))
       /\ tmp_root' = WriteFile(tmp_root, name, EmptyDir)
  /\ UNCHANGED <<input_file, output_file, output_before, first_run, block_size,
                 k, visualize, file_size, available_mem, work_dir_name,
                 work_dir_exists, work_dir, last_work_dir, runs, steps, pc, exc,
                 exc_at, genVars, passVars, mergeVars, final, jobVars>>

(***************************************************************************)
(* The scheduler takes the running thread off the processor and resumes    *)
(* the other one.                                                          *)
(***************************************************************************)
Switch ==
  /\ parked # None
  /\ LET o == parked[1]
     IN /\ parked' = Some(ThisSorter)
        /\ tmp_root' = RemoveFile(TmpRootNow, o.work_dir_name)
        /\ work_dir_exists' = (o.work_dir_name \in DOMAIN TmpRootNow)
        /\ work_dir' = IF o.work_dir_name \in DOMAIN TmpRootNow
                         THEN TmpRootNow[o.work_dir_name] ELSE EmptyDir
        /\ input_file' = o.input_file
        /\ output_file' = o.output_file
        /\ output_before' = o.output_before
        /\ first_run' = o.first_run
        /\ block_size' = o.block_size
        /\ k' = o.k
        /\ visualize' = o.visualize
        /\ file_size' = o.file_size
        /\ available_mem' = o.available_mem
        /\ work_dir_name' = o.work_dir_name
        /\ last_work_dir' = o.last_work_dir
        /\ runs' = o.runs
        /\ steps' = o.steps
        /\ pc' = o.pc
        /\ exc' = o.exc
        /\ exc_at' = o.exc_at
        /\ in_pos' = o.in_pos
        /\ run_id' = o.run_id
        /\ current' = o.current
        /\ pass_id' = o.pass_id
        /\ new_runs' = o.new_runs
        /\ i' = o.i
        /\ group_id' = o.group_id
        /\ input_runs' = o.input_runs
        /\ output_run' = o.output_run
        /\ files' = o.files
        /\ heap' = o.heap
        /\ heap_op_count' = o.heap_op_count
        /\ merged_count' = o.merged_count
        /\ final' = o.final
  /\ UNCHANGED jobVars

NextConcurrent == Next \/ NewSorter \/ Switch

InitConcurrent == InitWith(ConcFiles, {Some(1)}, {Some(2)}, {FALSE}, {Absent})

SpecConcurrent == InitConcurrent /\ [][NextConcurrent]_vars

(***************************************************************************)
(* The tuner on its own: auto_tune_params(input_file) called on files of   *)
(* any size under any memory psutil reports (lines 26-70).  block_size     *)
(* and k hold the pair it returned.                                        *)
(***************************************************************************)
TunerFileSizes ==
  {0, 8, 8 * 4096, 8 * 4096 * 64, 8 * 4096 * 64 + 8, 100 * MB, 300 * MB + 1,
   1000 * 1000 * 1000, 2047 * MB}

TunerMems ==
  {64 * 1024, 200 * 1024, 8 * 9 * MIN_BLOCK - 1, 8 * 9 * MIN_BLOCK, MB, 10 * MB,
   100 * MB, 256 * MB - 1, 256 * MB, 300 * MB, 512 * MB - 1, 512 * MB,
   1024 * MB, 2047 * MB}

AutoTuneParams ==
  /\ pc = "tuner"
  /\ \E size \in TunerFileSizes, mem \in TunerMems :
       LET t == auto_tune_params(size, mem)
       IN /\ file_size' = Some(size)
          /\ available_mem' = Some(mem)
          /\ block_size' = Some(t.block_size)
          /\ k' = Some(t.k)
  /\ UNCHANGED <<input_file, output_file, output_before, first_run, visualize,
                 otherVars, jobVars, work_dir_exists, work_dir, last_work_dir, runs, steps,
                 pc, exc, exc_at, genVars, passVars, mergeVars, final>>

\* No sorter: only the module-level function is called, again and again.
InitTuner ==
  /\ input_file = [recs |-> << >>, tail |-> 0]
  /\ output_file = Absent
  /\ output_before = Absent
  /\ first_run = None
  /\ block_size = None
  /\ k = None
  /\ visualize = FALSE
  /\ file_size = None
  /\ available_mem = None
  /\ work_dir_name = ""
  /\ tmp_root = EmptyDir
  /\ parked = None
  /\ work_dir_exists = FALSE
  /\ work_dir = EmptyDir
  /\ last_work_dir = EmptyDir
  /\ runs = << >>
  /\ steps = << >>
  /\ pc = "tuner"
  /\ exc = "none"
  /\ exc_at = "none"
  /\ in_pos = 0
  /\ run_id = 0
  /\ current = << >>
  /\ pass_id = 0
  /\ new_runs = << >>
  /\ i = 0
  /\ group_id = 0
  /\ input_runs = << >>
  /\ output_run = ""
  /\ files = << >>
  /\ heap = << >>
  /\ heap_op_count = 0
  /\ merged_count = 0
  /\ final = None
  /\ jobs = NoJobs
  /\ job_pc = "none"
  /\ input_on_disk = TRUE
  /\ steps_file = NoFile
  /\ response = None

SpecTuner == InitTuner /\ [][AutoTuneParams]_vars

(***************************************************************************)
(* The service of main.py: one job of the /sort endpoint.  sort_file       *)
(* stores the upload and starts a thread on run_sort; the thread sorts     *)
(* with external_merge_sort (the sorter above, its parameters auto-tuned), *)
(* writes the steps file, removes the upload and sets the status; requests *)
(* to /status, /steps and /download arrive at any time.                    *)
(***************************************************************************)
JobLen == 2

\* str(uuid.uuid4()) of the job
JobId == "job_a"

\* the uploads: whole records, or records and a partial one
JobFiles ==
  {[recs |-> r, tail |-> 0] : r \in SeqsUpTo(Records, JobLen)}
    \cup {[recs |-> r, tail |-> t] :
            r \in SeqsUpTo(Records, JobLen - 1), t \in PartialTails}

\* The service before the upload: no job, no sorter, nothing stored.
InitJobs ==
  /\ input_file \in JobFiles
  /\ output_file = Absent
  /\ output_before = Absent
  /\ first_run = None
  /\ block_size = None
  /\ k = None
  /\ visualize = FALSE
  /\ file_size = None
  /\ available_mem = None
  /\ work_dir_name = "tmp_a"
  /\ tmp_root = EmptyDir
  /\ parked = None
  /\ work_dir_exists = FALSE
  /\ work_dir = EmptyDir
  /\ last_work_dir = EmptyDir
  /\ runs = << >>
  /\ steps = << >>
  /\ pc = "no_sorter"
  /\ exc = "none"
  /\ exc_at = "none"
  /\ in_pos = 0
  /\ run_id = 0
  /\ current = << >>
  /\ pass_id = 0
  /\ new_runs = << >>
  /\ i = 0
  /\ group_id = 0
  /\ input_runs = << >>
  /\ output_run = ""
  /\ files = << >>
  /\ heap = << >>
  /\ heap_op_count = 0
  /\ merged_count = 0
  /\ final = None
  /\ jobs = NoJobs
  /\ job_pc = "none"
  /\ input_on_disk = FALSE
  /\ steps_file = NoFile
  /\ response = None

sorterVars ==
  <<input_file, output_file, output_before, first_run, block_size, k, visualize,
    file_size, available_mem, otherVars, work_dir_exists, work_dir,
    last_work_dir, runs, steps, pc, exc, exc_at, genVars, passVars, mergeVars,
    final>>

(***************************************************************************)
(* sort_file(), lines 65-93: the upload is written to input_path, the job  *)
(* is queued and the thread started.                                       *)
(***************************************************************************)
SortFile ==
  /\ job_pc = "none"
  /\ JobId \notin DOMAIN jobs
  /\ input_on_disk' = TRUE
  /\ jobs' = [j \in DOMAIN jobs \cup {JobId} |->
               IF j = JobId THEN "queued" ELSE jobs[j]]
  /\ job_pc' = "run_sort"
  /\ response' = Some([endpoint |-> "sort", code |-> 200, body |-> JobId])
  /\ UNCHANGED <<sorterVars, steps_file>>

(***************************************************************************)
(* run_sort(), line 40.                                                    *)
(***************************************************************************)
RunSortBegin ==
  /\ job_pc = "run_sort"
  /\ jobs' = [jobs EXCEPT ![JobId] = "processing"]
  /\ job_pc' = "external_merge_sort"
  /\ UNCHANGED <<sorterVars, input_on_disk, steps_file, response>>

(***************************************************************************)
(* external_merge_sort(), line 410: ExternalMergeSorter(input_path,        *)
(* block_size=None, k=None, visualize=False) makes its work directory;     *)
(* line 411 then calls sort(output_path), the actions of the sorter.       *)
(***************************************************************************)
ExternalMergeSort ==
  /\ job_pc = "external_merge_sort"
  /\ pc = "no_sorter"
  /\ work_dir_exists' = TRUE
  /\ pc' = "init"
  /\ job_pc' = "sort"
  /\ UNCHANGED <<input_file, output_file, output_before, first_run, block_size,
                 k, visualize, file_size, available_mem, otherVars, work_dir,
                 last_work_dir, runs, steps, exc, exc_at, genVars, passVars,
                 mergeVars, final, jobs, input_on_disk, steps_file, response>>

(***************************************************************************)
(* run_sort(), line 41: sort() has returned and external_merge_sort        *)
(* returns the steps.                                                      *)
(***************************************************************************)
SortReturns ==
  /\ job_pc = "sort"
  /\ pc = "returned"
  /\ job_pc' = "open_steps"
  /\ UNCHANGED <<sorterVars, jobs, input_on_disk, steps_file, response>>

(***************************************************************************)
(* run_sort(), lines 61-62: sort() has raised; the status is the error.    *)
(***************************************************************************)
SortRaises ==
  /\ job_pc = "sort"
  /\ pc = "raised"
  /\ jobs' = [jobs EXCEPT ![JobId] = "error: " \o exc]
  /\ job_pc' = "finished"
  /\ UNCHANGED <<sorterVars, input_on_disk, steps_file, response>>

(***************************************************************************)
(* run_sort(), lines 44-45: open(steps_file, "w") creates the file.        *)
(***************************************************************************)
OpenSteps ==
  /\ job_pc = "open_steps"
  /\ steps_file' = [exists |-> TRUE, complete |-> FALSE, steps |-> << >>]
  /\ job_pc' = "dump_steps"
  /\ UNCHANGED <<sorterVars, jobs, input_on_disk, response>>

(***************************************************************************)
(* run_sort(), lines 46-52: json.dump writes the steps and the file is     *)
(* closed; steps_storage never holds the job.                              *)
(***************************************************************************)
DumpSteps ==
  /\ job_pc = "dump_steps"
  /\ steps_file' = [exists |-> TRUE, complete |-> TRUE, steps |-> steps]
  /\ job_pc' = "remove_input"
  /\ UNCHANGED <<sorterVars, jobs, input_on_disk, response>>

(***************************************************************************)
(* run_sort(), lines 55-58: os.remove(input_path); an error is passed      *)
(* over.                                                                   *)
(***************************************************************************)
RemoveInput ==
  /\ job_pc = "remove_input"
  /\ input_on_disk' \in {FALSE, input_on_disk}
  /\ job_pc' = "set_done"
  /\ UNCHANGED <<sorterVars, jobs, steps_file, response>>

(***************************************************************************)
(* run_sort(), line 60.                                                    *)
(***************************************************************************)
SetDone ==
  /\ job_pc = "set_done"
  /\ jobs' = [jobs EXCEPT ![JobId] = "done"]
  /\ job_pc' = "finished"
  /\ UNCHANGED <<sorterVars, input_on_disk, steps_file, response>>

(***************************************************************************)
(* run_sort(), lines 45-46 and 61-62: the environment failing, an OSError  *)
(* from open() or from the writes of json.dump (a full disk); the file, if *)
(* it was created, stays as far as it was written.                         *)
(***************************************************************************)
StepsWriteFails ==
  /\ job_pc \in {"open_steps", "dump_steps"}
  /\ jobs' = [jobs EXCEPT ![JobId] = "error: OSError"]
  /\ job_pc' = "finished"
  /\ UNCHANGED <<sorterVars, input_on_disk, steps_file, response>>

(***************************************************************************)
(* check_status(), lines 96-100.                                           *)
(***************************************************************************)
CheckStatus ==
  /\ response' = Some(IF JobId \notin DOMAIN jobs
                        THEN [endpoint |-> "status", code |-> 404,
                              body |-> "Job not found"]
                        ELSE [endpoint |-> "status", code |-> 200,
                              body |-> jobs[JobId]])
  /\ UNCHANGED <<sorterVars, jobs, job_pc, input_on_disk, steps_file>>

(***************************************************************************)
(* get_steps(), lines 103-120: the steps file is read when it exists       *)
(* (json.load raises on a file not written to its end).                    *)
(***************************************************************************)
GetSteps ==
  /\ response' = Some(IF steps_file.exists
                        THEN IF steps_file.complete
                               THEN [endpoint |-> "steps", code |-> 200,
                                     body |-> "steps"]
                               ELSE [endpoint |-> "steps", code |-> 500,
                                     body |-> "JSONDecodeError"]
                        ELSE IF JobId \notin DOMAIN jobs
                               THEN [endpoint |-> "steps", code |-> 404,
                                     body |-> "Job not found"]
                        ELSE IF jobs[JobId] = "processing"
                               THEN [endpoint |-> "steps", code |-> 202,
                                     body |-> "Still processing"]
                               ELSE [endpoint |-> "steps", code |-> 404,
                                     body |-> "Steps not ready"])
  /\ UNCHANGED <<sorterVars, jobs, job_pc, input_on_disk, steps_file>>

(***************************************************************************)
(* download_file(), lines 123-133: the output file is served when it       *)
(* exists.                                                                 *)
(***************************************************************************)
DownloadFile ==
  /\ response' = Some(IF output_file.exists
                        THEN [endpoint |-> "download", code |-> 200,
                              body |-> "sorted.bin"]
                        ELSE [endpoint |-> "download", code |-> 404,
                              body |-> "File not ready yet"])
  /\ UNCHANGED <<sorterVars, jobs, job_pc, input_on_disk, steps_file>>

\* sort() on an upload of up to JobLen records: the tuned block_size is
\* 4096 records or more, so generate_runs writes one run at most and
\* multi_pass_merge has nothing to merge.
SortOneRun ==
  \/ SortCall
  \/ GenerateRunsOpen
  \/ GenerateRun
  \/ MultiPassMergeBegin
  \/ PassLoop
  \/ Finalize
  \/ MoveRename
  \/ MoveCopyOpen
  \/ MoveCopyData
  \/ Preview
  \/ Cleanup

RunSort ==
  \/ RunSortBegin
  \/ ExternalMergeSort
  \/ SortOneRun
  \/ SortReturns
  \/ SortRaises
  \/ OpenSteps
  \/ DumpSteps
  \/ RemoveInput
  \/ SetDone

Requests == CheckStatus \/ GetSteps \/ DownloadFile

NextJobs == SortFile \/ RunSort \/ Requests

\* ... and with the environment failing
NextJobsF == NextJobs \/ IOError \/ CleanupFails \/ StepsWriteFails

SpecJobs == InitJobs /\ [][NextJobs]_vars

SpecJobsFaults == InitJobs /\ [][NextJobsF]_vars

(***************************************************************************)
(* Properties.                                                             *)
(***************************************************************************)
Count(s, v) == Cardinality({j \in 1..Len(s) : s[j] = v})

\* t holds the records of s, each as often as s does
SameRecords(s, t) ==
  /\ Len(s) = Len(t)
  /\ \A j \in 1..Len(s) : Count(s, s[j]) = Count(t, s[j])

\* No record is smaller than the record before it (the test of
\* sorter/check.py, line 12; record[j] <= record[j+1] on NaN-free data)
NonDecreasing(s) == \A j \in 1..(Len(s) - 1) : ~FloatLT(s[j + 1], s[j])

NaNFree(s) == \A j \in 1..Len(s) : s[j] # NaN

GenMergePcs ==
  {"generate_runs", "read_block", "multi_pass_merge", "pass_loop", "merge_pass",
   "merge_open", "merge_out", "merge_loop"}

FinalizePcs == {"finalize", "move", "move_copy", "preview"}

EventCount(t) == Cardinality({j \in 1..Len(steps) : steps[j].type = t})

\* C1: for every input whose length is a multiple of 8 bytes and every
\* valid (block_size, k), once sort() has returned the records of the output
\* file are a permutation of the input's records, in non-decreasing order.
C1_SortedPermutation ==
  (pc = "returned" /\ input_file.tail = 0) =>
     /\ SameRecords(input_file.recs, output_file.recs)
     /\ NonDecreasing(output_file.recs)

\* The same on inputs that hold no NaN.
SortedPermutationWithoutNaN ==
  (pc = "returned" /\ input_file.tail = 0 /\ NaNFree(input_file.recs)) =>
     /\ SameRecords(input_file.recs, output_file.recs)
     /\ NonDecreasing(output_file.recs)

\* C2: parameter independence: two runs of sort() on one input with
\* different valid (block_size, k) produce the same output record sequence.
C2_ParameterIndependence ==
  (pc = "returned" /\ first_run # None) => output_file.recs = first_run[1].recs

\* The same on inputs that hold no NaN.
ParameterIndependenceWithoutNaN ==
  (pc = "returned" /\ first_run # None /\ NaNFree(input_file.recs)) =>
     output_file.recs = first_run[1].recs

\* C3: an error during run generation or during a merge aborts sort() at
\* once with that error, and the destination path holds exactly what it held
\* before the call: no partial output is ever visible there.
C3_ErrorLeavesOutputUntouched ==
  /\ pc \in GenMergePcs => output_file = output_before
  /\ (exc # "none" /\ exc_at \in GenMergePcs) =>
        /\ pc \in {"finally", "raised"}
        /\ output_file = output_before

C3_Witness ==
  /\ pc = "raised"
  /\ exc = "OSError"
  /\ exc_at = "merge_loop"
  /\ merged_count >= 1
  /\ output_before = Present(PriorRecs)
  /\ output_file = Present(PriorRecs)

\* C4: when a prior file exists at the destination, a reader of the
\* destination sees at every moment either the complete prior file or the
\* complete new sorted file, never a missing or partially written one.
C4_AtomicReplace ==
  output_before.exists =>
     \/ output_file = output_before
     \/ /\ output_file.exists
        /\ SameRecords(input_file.recs, output_file.recs)

\* C5: the work directory exists only within the span of a sort call: it
\* is created at the start of the call and destroyed on every exit path.
C5_WorkDirOnlyDuringSort ==
  work_dir_exists => pc \notin {"init", "returned", "raised"}

\* C6: for an input whose length is not a multiple of 8 bytes, whatever
\* block_size and k, sort() ends in an error before any merging; the
\* trailing bytes are never dropped silently and nothing is produced at the
\* destination.
C6_MalformedInputRejected ==
  input_file.tail # 0 =>
     /\ pc \in {"init", "generate_runs", "read_block", "finally", "raised"}
     /\ pc \in {"finally", "raised"} => exc # "none"
     /\ output_file = output_before

\* The same for block_size >= 1 (given or tuned) and any k.
MalformedInputRejectedForPositiveBlockSize ==
  (input_file.tail # 0 /\ (block_size = None \/ block_size[1] >= 1)) =>
     /\ pc \in {"init", "generate_runs", "read_block", "finally", "raised"}
     /\ pc \in {"finally", "raised"} => exc = "struct.error"
     /\ output_file = output_before

\* C7: a call with a caller-supplied block_size <= 0 or k < 2 ends in an
\* error; it never returns successfully.
C7_InvalidTuningRejected ==
  (block_size # None /\ k # None /\ (block_size[1] <= 0 \/ k[1] < 2)) =>
     pc # "returned"

\* the least p with base^p >= n, counted up from acc = base^p
RECURSIVE LeastPower(_, _, _, _)
LeastPower(base, n, p, acc) ==
  IF acc >= n THEN p ELSE LeastPower(base, n, p + 1, acc * base)

\* ceil(log_base(n)) for n > 1, and 0 for n <= 1
CeilLog(base, n) == LeastPower(base, n, 0, 1)

\* C8: for every number R of initial runs and every k >= 2 the loop
\* "while len(current) > 1" exits, with exactly one run left when R >= 1 and
\* none when R = 0, and every pass leaves fewer runs than it found.
C8_SchedulerTerminates ==
  /\ [](pc = "finalize" =>
          /\ Len(current) = (IF Len(runs) >= 1 THEN 1 ELSE 0)
          /\ (final = None) <=> (runs = << >>))
  /\ [][(pc = "merge_pass" /\ pc' = "pass_loop") => Len(current') < Len(current)]_vars
  /\ (pc = "pass_loop") ~> (pc = "finalize")

C8_Witness ==
  /\ pc = "finalize"
  /\ Len(runs) = SchedRuns
  /\ pass_id >= 3
  /\ Len(current) = 1

\* C9: the number of merge passes (the final pass_id, the number of
\* pass_info events) is the least p with k^p >= R for R initial runs, which
\* is ceil(log_k(R)) when R > 1 and zero when R <= 1.
C9_PassCount ==
  pc \in FinalizePcs \cup {"returned"} =>
     /\ pass_id = CeilLog(k[1], Len(runs))
     /\ EventCount("pass_info") = pass_id

C9_Witness ==
  /\ pc = "returned"
  /\ k[1] = 2
  /\ Len(runs) >= 5
  /\ pass_id = 3

\* C10: sorting a 0-byte input creates no run, performs no merge pass (no
\* merge_start or pass_info event) and leaves an empty file at the
\* destination, replacing a prior file there.
C10_EmptyInput ==
  FileSize(input_file) = 0 =>
     /\ runs = << >>
     /\ work_dir = EmptyDir
     /\ pass_id = 0
     /\ EventCount("merge_start") = 0
     /\ EventCount("pass_info") = 0
     /\ pc # "raised"
     /\ pc = "returned" => output_file = Present(<< >>)

C10_Witness ==
  /\ FileSize(input_file) = 0
  /\ pc = "returned"
  /\ output_before = Present(PriorRecs)
  /\ output_file = Present(<< >>)

\* C11: the pair (block_size, k) the tuner returns for a memory budget
\* available_mem satisfies block_size * (k + 1) * 8 <= available_mem,
\* whatever the size of the input, the budgets under which the floor of
\* MIN_BLOCK records applies included.
C11_TunerResourceBound ==
  available_mem # None =>
     block_size[1] * (k[1] + 1) * 8 <= available_mem[1]

\* The same for budgets that hold MIN_BLOCK records for each of the k + 1
\* buffers.
TunerResourceBoundAboveFloor ==
  (available_mem # None /\ available_mem[1] >= 8 * (k[1] + 1) * MIN_BLOCK) =>
     block_size[1] * (k[1] + 1) * 8 <= available_mem[1]

\* the files of the work directory named by paths, in that order
Contents(paths) == [j \in 1..Len(paths) |-> work_dir[paths[j]]]

\* C12: on the input [5, 3, 1, 4, 2] with block_size 2 and k 2,
\* generate_runs writes the runs [3, 5], [1, 4], [2] in that order; pass 0
\* merges the groups {[3, 5], [1, 4]} into [1, 3, 4, 5] and {[2]} into [2];
\* pass 1 merges these two into [1, 2, 3, 4, 5]; exactly two passes run and
\* the output is [1, 2, 3, 4, 5].
C12_ConcreteTrace ==
  (input_file.recs = <<"5.0", "3.0", "1.0", "4.0", "2.0">>
     /\ block_size = Some(2) /\ k = Some(2)) =>
     /\ pc = "multi_pass_merge" =>
          /\ runs = <<RunPath(0), RunPath(1), RunPath(2)>>
          /\ Contents(runs) = <<<<"3.0", "5.0">>, <<"1.0", "4.0">>, <<"2.0">>>>
     /\ (pc = "merge_open" /\ pass_id = 0) =>
          Contents(input_runs) =
            (IF group_id = 0 THEN <<<<"3.0", "5.0">>, <<"1.0", "4.0">>>>
                             ELSE <<<<"2.0">>>>)
     /\ (pc = "pass_loop" /\ pass_id = 1) =>
          Contents(current) = <<<<"1.0", "3.0", "4.0", "5.0">>, <<"2.0">>>>
     /\ (pc = "merge_open" /\ pass_id = 1) =>
          /\ group_id = 0
          /\ Contents(input_runs) = <<<<"1.0", "3.0", "4.0", "5.0">>, <<"2.0">>>>
     /\ (pc = "pass_loop" /\ pass_id = 2) =>
          Contents(current) = <<<<"1.0", "2.0", "3.0", "4.0", "5.0">>>>
     /\ pass_id <= 2
     /\ pc = "returned" =>
          /\ pass_id = 2
          /\ EventCount("pass_info") = 2
          /\ EventCount("merge_end") = 3
          /\ output_file = Present(<<"1.0", "2.0", "3.0", "4.0", "5.0">>)

C12_Witness ==
  /\ input_file.recs = <<"5.0", "3.0", "1.0", "4.0", "2.0">>
  /\ block_size = Some(2)
  /\ k = Some(2)
  /\ pc = "returned"
  /\ pass_id = 2
  /\ output_file = Present(<<"1.0", "2.0", "3.0", "4.0", "5.0">>)

\* record[j] <= record[j + 1] for every j
SortedLE(s) == \A j \in 1..(Len(s) - 1) : FloatLE(s[j], s[j + 1])

\* C13: idempotence: for an input already in non-decreasing order the
\* output of sort() is the input, record for record (records that compare
\* equal keep their places); and sorting the output of a sort gives that
\* output again, sort(sort(x)) = sort(x).
C13_Idempotence ==
  /\ (pc = "returned" /\ first_run = None /\ SortedLE(input_file.recs)) =>
        output_file.recs = input_file.recs
  /\ (pc = "returned" /\ first_run # None) =>
        output_file.recs = first_run[1].recs

\* The first half alone: a sorted input comes out as it went in.
SortedInputUnchanged ==
  (pc = "returned" /\ SortedLE(input_file.recs)) =>
     output_file.recs = input_file.recs

\* The second half on inputs that hold no NaN.
IdempotenceWithoutNaN ==
  (pc = "returned" /\ first_run # None /\ NaNFree(input_file.recs)) =>
     output_file.recs = first_run[1].recs

\* C14: the steps list is a pure observer: the same input sorted with the
\* same block_size and k, once with visualize on and once with it off,
\* leaves the same run files, takes the same number of passes and produces
\* the same output, and neither sort ends in an error.
C14_DiagnosticsPureObserver ==
  /\ exc = "none"
  /\ (pc = "returned" /\ first_run # None) =>
        /\ visualize # first_run[1].visualize
        /\ output_file.recs = first_run[1].recs
        /\ pass_id = first_run[1].passes
        /\ last_work_dir = first_run[1].files

C14_Witness ==
  /\ pc = "returned"
  /\ first_run # None
  /\ ~visualize
  /\ first_run[1].visualize
  /\ pass_id = 2
  /\ Cardinality(DOMAIN last_work_dir) >= 5
  /\ output_file.recs = first_run[1].recs
  /\ ~NaNFree(output_file.recs)

\* What a sort of a NaN-free input produces when it runs alone: the stable
\* ascending order of the input's records.
SoloOutputIsStableSort ==
  (pc = "returned" /\ input_file.tail = 0 /\ NaNFree(input_file.recs)) =>
     output_file.recs = ListSort(input_file.recs)

\* a sorter at pcv has been constructed or is in sort(): its work directory
\* is its own until cleanup() has removed it
Sorting(pcv) == pcv \notin {"returned", "raised"}

\* C15: two sorters running sort() concurrently, under any interleaving of
\* their steps: each has a work directory of its own, a sorter that resumes
\* in its sort finds its work directory as it left it (the other has
\* written and deleted nothing there), and each produces the output it
\* produces when it runs alone.
C15_InstanceIsolation ==
  /\ [](parked # None =>
          /\ (Sorting(pc) /\ Sorting(parked[1].pc)) =>
                /\ work_dir_exists /\ parked[1].work_dir_exists
                /\ work_dir_name # parked[1].work_dir_name
          /\ exc = "none" /\ parked[1].exc = "none"
          /\ pc = "returned" =>
                output_file.recs = ListSort(input_file.recs)
          /\ parked[1].pc = "returned" =>
                parked[1].output_file.recs = ListSort(parked[1].input_file.recs))
  /\ [][parked # None /\ parked' # parked /\ Sorting(parked[1].pc) =>
          /\ work_dir' = parked[1].work_dir
          /\ work_dir_exists' = parked[1].work_dir_exists]_vars

C15_Witness ==
  /\ parked # None
  /\ pc = "returned"
  /\ Len(runs) = 3
  /\ parked[1].pc = "merge_loop"
  /\ parked[1].pass_id = 1
  /\ parked[1].merged_count >= 1
  /\ parked[1].work_dir_exists
  /\ parked[1].input_file # input_file

\* merge_k_runs at the test of "while heap": the heap entries of source j
HeapEntriesOf(j) == {n \in 1..Len(heap) : heap[n][2] = j}

\* the records of input run j (0-based) of the group
RunOf(j) == work_dir[input_runs[j + 1]]

\* how many records of input run j have been written to the output: the
\* records read from it but for the one waiting in the heap
EmittedOf(j) == files[j + 1].pos - Cardinality(HeapEntriesOf(j))

RECURSIVE EmittedUpTo(_)
EmittedUpTo(n) ==
  IF n = 0 THEN << >>
  ELSE EmittedUpTo(n - 1) \o SubSeq(RunOf(n - 1), 1, EmittedOf(n - 1))

\* The heap holds, for each input run with records not yet written, one
\* entry, the first of these records, and nothing for an exhausted run.
HeapHoldsRunHeads ==
  pc = "merge_loop" =>
     /\ \A j \in 0..(Len(input_runs) - 1) :
          /\ Cardinality(HeapEntriesOf(j)) <= 1
          /\ EmittedOf(j) \in 0..Len(RunOf(j))
          /\ (EmittedOf(j) < Len(RunOf(j))) <=> (HeapEntriesOf(j) # {})
          /\ \A n \in HeapEntriesOf(j) : heap[n][1] = RunOf(j)[EmittedOf(j) + 1]
     /\ \A n \in 1..Len(heap) : heap[n][2] \in 0..(Len(input_runs) - 1)
     /\ merged_count = Len(work_dir[output_run])
     /\ SameRecords(work_dir[output_run], EmittedUpTo(Len(input_runs)))

\* The entry heappop returns next is a minimum of the records not yet
\* written: none of them is smaller.
PoppedIsMinimum ==
  (pc = "merge_loop" /\ heap # << >>) =>
     \A j \in 0..(Len(input_runs) - 1) :
        \A m \in (EmittedOf(j) + 1)..Len(RunOf(j)) :
           ~FloatLT(RunOf(j)[m], HeapPopItem(heap)[1])

\* C16: at the start of every turn of "while heap" in merge_k_runs the heap
\* holds exactly one entry for each input run that still has records not
\* yet emitted, namely the first (smallest) of them, and none for an
\* exhausted run; so the value popped is the minimum of all records of the
\* group not yet emitted.
C16_MergeLoopInvariant == HeapHoldsRunHeads /\ PoppedIsMinimum

\* The same on inputs that hold no NaN.
MergeLoopInvariantWithoutNaN ==
  NaNFree(input_file.recs) => (HeapHoldsRunHeads /\ PoppedIsMinimum)

\* the run files named in a run list that the work directory holds
RunsIn(list) == {list[j] : j \in 1..Len(list)} \cap DOMAIN work_dir

\* Every run of the run lists (self.runs, and current and new_runs of the
\* scheduler) has no record smaller than the record before it, and an
\* initial run has at most block_size records.
RunsInOrder ==
  pc \in GenMergePcs \cup {"finalize"} =>
     /\ \A r \in RunsIn(runs) :
          /\ Len(work_dir[r]) <= block_size[1]
          /\ NonDecreasing(work_dir[r])
     /\ \A r \in RunsIn(current) \cup RunsIn(new_runs) :
          NonDecreasing(work_dir[r])

\* C17: in every reachable state every run of the scheduler's current run
\* list, initial or merged, is a non-decreasing sequence, and every initial
\* run holds at most block_size records.
C17_RunInvariant == RunsInOrder

\* The same on inputs that hold no NaN, with record[j] <= record[j + 1].
RunInvariantWithoutNaN ==
  (NaNFree(input_file.recs) /\ pc \in GenMergePcs \cup {"finalize"}) =>
     /\ \A r \in RunsIn(runs) :
          Len(work_dir[r]) <= block_size[1] /\ SortedLE(work_dir[r])
     /\ \A r \in RunsIn(current) \cup RunsIn(new_runs) : SortedLE(work_dir[r])

\* Every initial run holds at most block_size records, NaN or not.
InitialRunsWithinBlockSize ==
  pc \in GenMergePcs \cup {"finalize"} =>
     \A r \in RunsIn(runs) : Len(work_dir[r]) \in 1..block_size[1]

\* the pcs at which control is inside merge_k_runs with its inputs open
InMergePcs == {"merge_out", "merge_loop"}

\* C18: no input run handle opened by merge_k_runs is open once control has
\* left it, whether it returned or raised (an input failing to open after
\* others were opened, a read error, the output failing to open, a write
\* failing).
C18_MergeClosesInputs ==
  pc \notin InMergePcs => \A j \in 1..Len(files) : ~files[j].open

\* The same for the merges that return.
MergeClosesInputsOnReturn ==
  (pc \notin InMergePcs /\ exc = "none") => \A j \in 1..Len(files) : ~files[j].open

\* the generations of run files: 0 for the initial runs, p + 1 for the runs
\* pass p writes
GenerationFiles(g) ==
  IF g = 0 THEN {RunPath(id) : id \in 0..(MaxLen + 1)}
  ELSE {PassRunPath(g - 1, gid) : gid \in 0..(MaxGroups + 1)}

GenerationsPresent ==
  {g \in 0..(MaxPasses + 1) : GenerationFiles(g) \cap DOMAIN work_dir # {}}

\* C19: once a merge pass is complete the run files it consumed are gone
\* from the work directory, which therefore never holds run files of more
\* than two generations (the one being consumed, the one being produced).
C19_ConsumedRunsDeleted ==
  /\ (pc = "pass_loop" /\ pass_id >= 1) =>
        DOMAIN work_dir = {current[j] : j \in 1..Len(current)}
  /\ Cardinality(GenerationsPresent) <= 2

\* What the code does: every run file written stays until cleanup().
RunFilesKeptUntilCleanup ==
  [][pc # "finally" /\ pc' \notin {"preview", "init"} =>
       DOMAIN work_dir \subseteq DOMAIN work_dir']_vars

\* the positions in steps of the events of type t
EventsOf(t) == {j \in 1..Len(steps) : steps[j].type = t}

\* C20: the phases of sort() follow one another in the event log: every
\* read_block and sort_block event precedes every merge_start; between the
\* merge_start of a group and the next merge_start lies the merge_end of
\* that group; every merge_end of pass p precedes the pass_info of pass
\* p + 1 (and follows that of pass p); the finished event is the last one,
\* after every merge_end, and is logged with the output in place.
C20_PhasesSequential ==
  /\ \A a \in EventsOf("read_block") \cup EventsOf("sort_block") :
        \A b \in EventsOf("merge_start") \cup EventsOf("pass_info") : a < b
  /\ \A a, b \in EventsOf("merge_start") :
        a < b => \E c \in EventsOf("merge_end") :
                   /\ a < c /\ c < b
                   /\ steps[c].pass_id = steps[a].pass_id
                   /\ steps[c].group_id = steps[a].group_id
  /\ \A c \in EventsOf("merge_end") :
        /\ \E a \in EventsOf("merge_start") :
             /\ a < c
             /\ steps[a].pass_id = steps[c].pass_id
             /\ steps[a].group_id = steps[c].group_id
        /\ \A d \in EventsOf("pass_info") :
             /\ steps[d].pass_id = steps[c].pass_id + 1 => c < d
             /\ steps[d].pass_id = steps[c].pass_id => d < c
  /\ \A f \in EventsOf("finished") :
        /\ f = Len(steps)
        /\ EventsOf("finished") = {f}
        /\ pc \in {"finally", "returned"}
        /\ exc = "none"
        /\ output_file.exists
        /\ final # None => final[1] \notin DOMAIN work_dir
        /\ EventCount("merge_start") = EventCount("merge_end")

C20_Witness ==
  /\ pc = "returned"
  /\ visualize
  /\ EventCount("finished") = 1
  /\ EventCount("pass_info") = 2
  /\ EventCount("merge_end") = 3
  /\ EventCount("read_block") = 4


\* merge_k_runs at the test of "while heap": the entry heappop returns next
\* has the lowest source index of the heap entries whose value compares
\* equal (==) to its value.
LowerSourceFirst ==
  (pc = "merge_loop" /\ heap # << >>) =>
     \A n \in 1..Len(heap) :
        FloatEQ(heap[n][1], HeapPopItem(heap)[1])
          => HeapPopItem(heap)[2] <= heap[n][2]

\* The records of one input run are emitted in their run order: the heap
\* entry of a run is the first of its records not yet written, and the
\* output holds the records emitted so far, one per count of merged_count.
RunOrderKept ==
  pc = "merge_loop" =>
     /\ \A j \in 0..(Len(input_runs) - 1) :
          /\ Cardinality(HeapEntriesOf(j)) <= 1
          /\ EmittedOf(j) \in 0..Len(RunOf(j))
          /\ \A n \in HeapEntriesOf(j) : heap[n][1] = RunOf(j)[EmittedOf(j) + 1]
     /\ merged_count = Len(work_dir[output_run])

\* C21: in merge_k_runs, whenever the head records of two input runs of a
\* group compare equal, the record of the run with the lower source index
\* is emitted first, and the records of one run are emitted in their run
\* order.
C21_TieBreakBySource == LowerSourceFirst /\ RunOrderKept

\* The same on inputs that hold no NaN.
TieBreakBySourceWithoutNaN ==
  NaNFree(input_file.recs) => (LowerSourceFirst /\ RunOrderKept)

\* the records of the run files of a run list, one run after the other
RECURSIVE RunListRecords(_)
RunListRecords(list) ==
  IF list = << >> THEN << >>
  ELSE work_dir[Head(list)] \o RunListRecords(Tail(list))

\* group g (0-based) of the pass under way: runs[g*k : g*k + k]
GroupOf(g) == PySlice(current, g * k[1], g * k[1] + k[1])

MergePassPcs == {"merge_pass", "merge_open", "merge_out", "merge_loop"}

\* After generate_runs and after every completed pass the runs of the run
\* list hold the records of the input, each as often as the input does.
RunListConserved ==
  /\ pc = "multi_pass_merge" => SameRecords(RunListRecords(runs), input_file.recs)
  /\ pc \in {"pass_loop", "finalize"}
       => SameRecords(RunListRecords(current), input_file.recs)

\* The groups of a pass are the slices runs[g*k : g*k + k] for g = 0, 1, ..:
\* i is k times group_id, the group handed to merge_k_runs is group
\* group_id and holds 1..k runs, and the pass ends after ceil(len(runs)/k)
\* groups; so every run of the pass is in one group and one only.
GroupsPartitionPass ==
  pc \in MergePassPcs =>
     /\ i = group_id * k[1]
     /\ Len(new_runs) = group_id
     /\ pc # "merge_pass" =>
          /\ input_runs = GroupOf(group_id)
          /\ Len(input_runs) \in 1..k[1]
     /\ (pc = "merge_pass" /\ i >= Len(current))
          => group_id = CeilDiv(Len(current), k[1])

\* Every merged run of the pass under way holds the records of its group,
\* and merged_count, after a merge, is the sum of the lengths of the runs
\* of the group merged last.
MergedRunHoldsGroup ==
  pc \in MergePassPcs =>
     /\ \A g \in 1..Len(new_runs) :
          SameRecords(work_dir[new_runs[g]], RunListRecords(GroupOf(g - 1)))
     /\ (pc = "merge_pass" /\ group_id > 0)
          => /\ merged_count = Len(RunListRecords(GroupOf(group_id - 1)))
             /\ steps[Len(steps)].type = "merge_end"
             /\ steps[Len(steps)].merged_count = merged_count

\* C22: after run generation and after every completed merge pass the runs
\* of the current run list hold, together, exactly the records of the input
\* (as a multiset); each run of a pass belongs to exactly one contiguous
\* group of at most k runs, and each merged run holds exactly the records
\* of its group, merged_count being the sum of the group's run lengths.
C22_RecordConservation ==
  RunListConserved /\ GroupsPartitionPass /\ MergedRunHoldsGroup

\* C22 witness: a pass over four runs with k = 3 has ended with a group of
\* three runs and a group of one, the input holding a record twice.
C22_Witness ==
  /\ pc = "pass_loop"
  /\ pass_id = 1
  /\ k = Some(3)
  /\ Len(runs) = 4
  /\ Len(current) = 2
  /\ Len(work_dir[current[1]]) = 3
  /\ merged_count = 1
  /\ \E a, b \in 1..Len(input_file.recs) : a # b /\ input_file.recs[a] = input_file.recs[b]

\* the status strings run_sort can set in its except clause
IsError(status) == status \notin {"queued", "processing", "done"}

StatusOf(js) == IF JobId \in DOMAIN js THEN js[JobId] ELSE "no job"

\* The status of the job only moves queued -> processing -> done or error,
\* starting at queued, and done and error are final.
StatusMoves ==
  [][StatusOf(jobs') # StatusOf(jobs) =>
       \/ StatusOf(jobs) = "no job" /\ StatusOf(jobs') = "queued"
       \/ StatusOf(jobs) = "queued" /\ StatusOf(jobs') = "processing"
       \/ /\ StatusOf(jobs) = "processing"
          /\ StatusOf(jobs') = "done" \/ IsError(StatusOf(jobs'))]_vars

\* While the status reads done, sorted_<job_id>.bin exists and holds every
\* record of the upload, and steps_<job_id>.json exists, written to its end
\* with the steps of the sort.
DoneHasFiles ==
  StatusOf(jobs) = "done" =>
     /\ output_file.exists
     /\ SameRecords(output_file.recs, input_file.recs)
     /\ steps_file.exists
     /\ steps_file.complete
     /\ steps_file.steps = steps

\* While the status reads an error, no file sorted_<job_id>.bin exists.
ErrorHasNoOutput ==
  (JobId \in DOMAIN jobs /\ IsError(jobs[JobId])) => ~output_file.exists

\* C23: for every job of the /sort endpoint, under any interleaving of
\* the worker thread with status, steps and download requests, the status
\* only moves queued -> processing -> (done | error) and never changes
\* after done or error; whenever it reads done, the complete output file
\* and the steps file both exist; whenever it reads an error, no sorted
\* output file of the job exists.
C23_JobLifecycle == StatusMoves /\ [](DoneHasFiles /\ ErrorHasNoOutput)

\* The status moves as said, and done has its files, whatever fails.
StatusMovesAndDoneHasFiles == StatusMoves /\ []DoneHasFiles

=============================================================================
